---- MODULE Spec2Model ----
(***************************************************************************)
(* Cart ledger, order collection and checkout of the Coccibelli storefront *)
(* (Redux slices cartSlice / ordersSlice / authSlice and the page handlers *)
(* of CartPage, ProductCard, ProfilePage and Navbar).                      *)
(*                                                                         *)
(* Four specifications share the variables:                                *)
(*   SpecCart   - the cart reducers dispatched with arbitrary payloads,    *)
(*                the localStorage write and the start of a new session;   *)
(*   SpecOrders - the order reducers dispatched with arbitrary payloads;   *)
(*   Spec       - the application: the handlers of the pages, which build  *)
(*                the payloads themselves;                                 *)
(*   SpecAuth   - login and registration requests in flight, their         *)
(*                outcomes, logout and the start of a new session.         *)
(*                                                                         *)
(* Encoding of JavaScript values: a missing timestamp is 0 and a missing   *)
(* status is "" (both are falsy in the source as well); a timestamp is the *)
(* millisecond clock value it was taken at (Date.now() and the ISO string  *)
(* of new Date() denote the same instant).  Display-only fields of a cart  *)
(* line (name, imageUrl, addedAt) are not part of the model; the text of a *)
(* notification is reduced to its channel and subject.                     *)
(***************************************************************************)
EXTENDS Integers, Sequences, FiniteSets, TLC

VARIABLES items, total, storage, orders, user, now, out,
          auth, authStorage, requests

vars == <<items, total, storage, orders, user, now, out,
          auth, authStorage, requests>>

cartVars == <<items, total, storage>>

\* token and status of the auth slice, the 'token' and 'user' entries of
\* localStorage, the login and registration requests awaiting their answer
authVars == <<auth, authStorage, requests>>

(***************************************************************************)
(* Bounds of the model.                                                    *)
(***************************************************************************)
MaxQty == 2
MaxOrders == 2
MaxClock == 2
MaxPending == 2

(***************************************************************************)
(* Sample data: two product ids with their prices, two accounts.           *)
(***************************************************************************)
ProductIds == {1, 2}
\* the products the shop page lists in Spec
Catalogue == {1}
PriceOf == [p \in ProductIds |-> IF p = 1 THEN 25 ELSE 15]

\* auth.user: null, or the account returned by the login request
NoUser == [id |-> 0, role |-> "none"]
Users == {[id |-> 1, role |-> "user"], [id |-> 2, role |-> "admin"]}
UserIds == {u.id : u \in Users}

QtyRange == (0 - MaxQty)..MaxQty
QtyPayloads == (0 - 1)..MaxQty

(***************************************************************************)
(* cartSlice                                                               *)
(***************************************************************************)

\* items.find(item => item.id === id): index of the first match, 0 if none
FindIndex(its, id) ==
  IF \E i \in 1..Len(its) : its[i].id = id
  THEN CHOOSE i \in 1..Len(its) :
         /\ its[i].id = id
         /\ \A j \in 1..(i - 1) : its[j].id # id
  ELSE 0

\* items.filter(item => item.id !== id)
RECURSIVE FilterOut(_, _)
FilterOut(its, id) ==
  IF its = <<>> THEN <<>>
  ELSE IF Head(its).id = id THEN FilterOut(Tail(its), id)
       ELSE <<Head(its)>> \o FilterOut(Tail(its), id)

\* items.reduce((sum, item) => sum + item.price * item.quantity, 0)
RECURSIVE Reduce(_, _)
Reduce(sum, its) ==
  IF its = <<>> THEN sum
  ELSE Reduce(sum + (Head(its).price * Head(its).quantity), Tail(its))

\* a total that forgets the quantities
RECURSIVE SumOfPrices(_)
SumOfPrices(its) ==
  IF its = <<>> THEN 0 ELSE Head(its).price + SumOfPrices(Tail(its))

calculateTotal(its) == Reduce(0, its)

\* JSON.stringify(items): the text kept under localStorage key 'cart'
JSONstringify(its) ==
  [i \in 1..Len(its) |-> <<its[i].id, its[i].price, its[i].quantity>>]

\* JSON.parse(text)
JSONparse(text) ==
  [i \in 1..Len(text) |->
     [id |-> text[i][1], price |-> text[i][2], quantity |-> text[i][3]]]

NoEntry == [present |-> FALSE, text |-> <<>>]

\* a save that writes the lines the cart had before the operation
saveCartToStorageStale(its, ok) ==
  IF ok
  THEN [storage |-> [present |-> TRUE, text |-> JSONstringify(items)],
        toasts |-> <<>>]
  ELSE [storage |-> storage,
        toasts |-> <<"console.error:save", "toast.error:save">>]

\* a save whose failure is swallowed without any notification
saveCartToStorageSilent(its, ok) ==
  IF ok
  THEN [storage |-> [present |-> TRUE, text |-> JSONstringify(its)],
        toasts |-> <<>>]
  ELSE [storage |-> storage, toasts |-> <<>>]

\* saveCartToStorage: setItem either succeeds or throws (quota); the
\* exception is caught and reduced to an error toast
saveCartToStorage(its, ok) ==
  IF ok
  THEN [storage |-> [present |-> TRUE, text |-> JSONstringify(its)],
        toasts |-> <<>>]
  ELSE [storage |-> storage,
        toasts |-> <<"console.error:save", "toast.error:save">>]

\* action.payload.quantity || 1
QuantityOrDefault(payload) ==
  IF payload.hasQuantity /\ payload.quantity # 0 THEN payload.quantity ELSE 1

\* an addToCart that never looks for an existing line
addToCartAlwaysPush(its, payload) ==
  [items |-> Append(its, [id |-> payload.id,
                          price |-> payload.price,
                          quantity |-> QuantityOrDefault(payload)]),
   toasts |-> <<"toast.success:added">>]

addToCartReducer(its, payload) ==
  LET quantity == QuantityOrDefault(payload)
      k == FindIndex(its, payload.id)
  IN IF k # 0
     THEN [items |-> [its EXCEPT ![k].quantity = @ + quantity],
           toasts |-> <<"toast.info:merged">>]
     ELSE [items |-> Append(its, [id |-> payload.id,
                                  price |-> payload.price,
                                  quantity |-> quantity]),
           toasts |-> <<"toast.success:added">>]

removeFromCartReducer(its, id) ==
  IF FindIndex(its, id) # 0
  THEN [items |-> FilterOut(its, id), toasts |-> <<"toast.info:removed">>]
  ELSE [items |-> its, toasts |-> <<"toast.error:notfound">>]

\* an update that removes the line for a negative quantity only and writes
\* a quantity of 0 into the line
updateQuantityKeepsZero(its, id, quantity) ==
  IF quantity < 0
  THEN [items |-> FilterOut(its, id),
        toasts |-> <<"toast.info:article-removed">>]
  ELSE LET k == FindIndex(its, id)
       IN IF k # 0
          THEN [items |-> [its EXCEPT ![k].quantity = quantity],
                toasts |-> <<"toast.info:quantity">>]
          ELSE [items |-> its, toasts |-> <<"toast.error:notfound">>]

updateQuantityReducer(its, id, quantity) ==
  IF quantity <= 0
  THEN [items |-> FilterOut(its, id),
        toasts |-> <<"toast.info:article-removed">>]
  ELSE LET k == FindIndex(its, id)
       IN IF k # 0
          THEN [items |-> [its EXCEPT ![k].quantity = quantity],
                toasts |-> <<"toast.info:quantity">>]
          ELSE [items |-> its, toasts |-> <<"toast.error:notfound">>]

\* bound of the model: every line quantity stays inside QtyRange
InRange(its) == \A i \in 1..Len(its) : its[i].quantity \in QtyRange

addToCart(payload, ok) ==
  LET r == addToCartReducer(items, payload)
      s == saveCartToStorage(r.items, ok)
  IN /\ InRange(r.items)
     /\ items' = r.items
     /\ total' = calculateTotal(r.items)
     /\ storage' = s.storage
     /\ out' = r.toasts \o s.toasts
     /\ UNCHANGED <<orders, user, now, authVars>>

removeFromCart(id, ok, after) ==
  LET r == removeFromCartReducer(items, id)
      s == saveCartToStorage(r.items, ok)
  IN /\ items' = r.items
     /\ total' = calculateTotal(r.items)
     /\ storage' = s.storage
     /\ out' = r.toasts \o s.toasts \o after
     /\ UNCHANGED <<orders, user, now, authVars>>

updateQuantity(id, quantity, ok) ==
  LET r == updateQuantityReducer(items, id, quantity)
      s == saveCartToStorage(r.items, ok)
  IN /\ items' = r.items
     /\ total' = calculateTotal(r.items)
     /\ storage' = s.storage
     /\ out' = r.toasts \o s.toasts
     /\ UNCHANGED <<orders, user, now, authVars>>

clearCartToasts(its) ==
  IF Len(its) > 0 THEN <<"toast.info:cleared">> ELSE <<>>

clearCart(ok, after) ==
  LET s == saveCartToStorage(<<>>, ok)
  IN /\ items' = <<>>
     /\ total' = 0
     /\ storage' = s.storage
     /\ out' = s.toasts \o clearCartToasts(items) \o after
     /\ UNCHANGED <<user, now, authVars>>

\* cartSlice initialState, evaluated when a new session loads the module:
\* items: JSON.parse(localStorage.getItem('cart')) || [], total: 0
initialState ==
  [items |-> IF storage.present THEN JSONparse(storage.text) ELSE <<>>,
   total |-> 0]

\* authSlice initialState: user null, token read from localStorage
authInitialState ==
  [token |-> IF authStorage.present THEN authStorage.token ELSE 0,
   status |-> "idle"]

\* The page is loaded again: every slice restarts from its initial state
\* (orders: [], user: null), localStorage survives, the requests of the
\* page that was left are gone.
SessionStart ==
  /\ items' = initialState.items
  /\ total' = initialState.total
  /\ orders' = <<>>
  /\ user' = NoUser
  /\ auth' = authInitialState
  /\ requests' = {}
  /\ out' = <<>>
  /\ UNCHANGED <<storage, now, authStorage>>

CartPayload(id, hasQ, q) ==
  [id |-> id, price |-> PriceOf[id], hasQuantity |-> hasQ, quantity |-> q]

DispatchAddToCart ==
  \E id \in ProductIds, hasQ \in BOOLEAN, q \in QtyPayloads, ok \in BOOLEAN :
    /\ (~hasQ => q = 0)
    /\ addToCart(CartPayload(id, hasQ, q), ok)

DispatchRemoveFromCart ==
  \E id \in ProductIds, ok \in BOOLEAN : removeFromCart(id, ok, <<>>)

DispatchUpdateQuantity ==
  \E id \in ProductIds, q \in QtyPayloads, ok \in BOOLEAN :
    updateQuantity(id, q, ok)

DispatchClearCart ==
  \E ok \in BOOLEAN : clearCart(ok, <<>>) /\ UNCHANGED orders

CartMutation ==
  \/ DispatchAddToCart
  \/ DispatchRemoveFromCart
  \/ DispatchUpdateQuantity
  \/ DispatchClearCart

\* CartPage: const shippingCost = 5
shippingCost == 5

(***************************************************************************)
(* ordersSlice                                                             *)
(***************************************************************************)

Statuses == {"pending", "processing", "shipped", "delivered", "cancelled"}

\* the transition table of updateOrderStatus
validTransitions ==
  [s \in Statuses |->
     CASE s = "pending" -> {"processing", "cancelled"}
       [] s = "processing" -> {"shipped", "cancelled"}
       [] s = "shipped" -> {"delivered"}
       [] s = "delivered" -> {}
       [] s = "cancelled" -> {}]

\* a validation that also lets a shipped order go back to processing
isValidTransitionOrReturn(currentStatus, status) ==
  \/ /\ currentStatus \in DOMAIN validTransitions
     /\ status \in validTransitions[currentStatus]
  \/ currentStatus = "shipped" /\ status = "processing"

\* validTransitions[currentStatus]?.includes(status)
isValidTransition(currentStatus, status) ==
  /\ currentStatus \in DOMAIN validTransitions
  /\ status \in validTransitions[currentStatus]

\* no validation at all
MayUpdateAlways(currentStatus, status) == TRUE

\* the condition of the if that guards the update:
\* isValidTransition || !validTransitions[currentStatus]
MayUpdate(currentStatus, status) ==
  \/ isValidTransition(currentStatus, status)
  \/ currentStatus \notin DOMAIN validTransitions

\* one step of a stable sort: o goes behind every order that is not older
RECURSIVE InsertDesc(_, _)
InsertDesc(sorted, o) ==
  IF sorted = <<>> THEN <<o>>
  ELSE IF Head(sorted).createdAt >= o.createdAt
       THEN <<Head(sorted)>> \o InsertDesc(Tail(sorted), o)
       ELSE <<o>> \o sorted

\* orders.sort((a, b) => new Date(b.createdAt) - new Date(a.createdAt))
RECURSIVE SortDesc(_)
SortDesc(ords) ==
  IF ords = <<>> THEN <<>>
  ELSE InsertDesc(SortDesc(SubSeq(ords, 1, Len(ords) - 1)), ords[Len(ords)])

\* an addOrder that pushes the order and does not sort the collection
addOrderNoSort(ords, payload) ==
  LET order == [payload EXCEPT
                  !.uid = Len(ords) + 1,
                  !.createdAt = IF payload.createdAt = 0 THEN now ELSE @,
                  !.status = IF payload.status = "" THEN "pending" ELSE @]
  IN Append(ords, order)

\* addOrder: defaults for createdAt and status, push, sort.  uid is the
\* identity of the pushed object (orders are only ever appended or cleared
\* all together, so the count of orders names it).
addOrderReducer(ords, payload) ==
  LET order == [payload EXCEPT
                  !.uid = Len(ords) + 1,
                  !.createdAt = IF payload.createdAt = 0 THEN now ELSE @,
                  !.status = IF payload.status = "" THEN "pending" ELSE @]
  IN SortDesc(Append(ords, order))

\* a lookup that falls back on the first order when no order has the id
FindOrderOrFirst(ords, orderId) ==
  IF \E i \in 1..Len(ords) : ords[i].id = orderId
  THEN CHOOSE i \in 1..Len(ords) :
         /\ ords[i].id = orderId
         /\ \A j \in 1..(i - 1) : ords[j].id # orderId
  ELSE IF Len(ords) > 0 THEN 1 ELSE 0

\* orders.find(order => order.id === orderId): index of the first match
FindOrder(ords, orderId) ==
  IF \E i \in 1..Len(ords) : ords[i].id = orderId
  THEN CHOOSE i \in 1..Len(ords) :
         /\ ords[i].id = orderId
         /\ \A j \in 1..(i - 1) : ords[j].id # orderId
  ELSE 0

\* an update that stamps createdAt instead of updatedAt
updateOrderStatusStampsCreatedAt(ords, orderId, status) ==
  LET k == FindOrder(ords, orderId)
  IN IF k # 0 /\ MayUpdate(ords[k].status, status)
     THEN [orders |-> [ords EXCEPT ![k].status = status,
                                   ![k].createdAt = now],
           log |-> <<>>]
     ELSE [orders |-> ords, log |-> <<>>]

\* an update that stamps shippedAt on every accepted change
updateOrderStatusAlwaysShippedAt(ords, orderId, status) ==
  LET k == FindOrder(ords, orderId)
  IN IF k # 0
     THEN IF MayUpdate(ords[k].status, status)
          THEN [orders |-> [ords EXCEPT
                  ![k].status = status,
                  ![k].updatedAt = now,
                  ![k].shippedAt = now,
                  ![k].deliveredAt = IF status = "delivered" THEN now ELSE @],
                log |-> <<>>]
          ELSE [orders |-> ords, log |-> <<"console.warn:transition">>]
     ELSE [orders |-> ords, log |-> <<"console.error:notfound">>]

updateOrderStatusReducer(ords, orderId, status) ==
  LET k == FindOrder(ords, orderId)
  IN IF k # 0
     THEN IF MayUpdate(ords[k].status, status)
          THEN [orders |-> [ords EXCEPT
                  ![k].status = status,
                  ![k].updatedAt = now,
                  ![k].shippedAt = IF status = "shipped" THEN now ELSE @,
                  ![k].deliveredAt = IF status = "delivered" THEN now ELSE @],
                log |-> <<>>]
          ELSE [orders |-> ords, log |-> <<"console.warn:transition">>]
     ELSE [orders |-> ords, log |-> <<"console.error:notfound">>]

\* orders.filter(order => order.userId === userId)
RECURSIVE FilterByUser(_, _)
FilterByUser(ords, userId) ==
  IF ords = <<>> THEN <<>>
  ELSE IF Head(ords).userId = userId
       THEN <<Head(ords)>> \o FilterByUser(Tail(ords), userId)
       ELSE FilterByUser(Tail(ords), userId)

\* a selection that sorts the whole collection without filtering it
selectUserOrdersNoFilter(ords, userId) == SortDesc(ords)

\* selectUserOrders: the orders of the user, the most recent first
selectUserOrders(ords, userId) == SortDesc(FilterByUser(ords, userId))

\* selectAllOrders: the collection as it is stored
selectAllOrders(ords) == ords

\* ProfilePage, the orders the page lists: all of them for an admin, the
\* user's own otherwise
profileOrders(u, ords) ==
  IF u.role = "admin" THEN selectAllOrders(ords)
  ELSE selectUserOrders(ords, u.id)

\* orders.filter(o => o.status === status).length
RECURSIVE CountStatus(_, _)
CountStatus(ords, status) ==
  IF ords = <<>> THEN 0
  ELSE (IF Head(ords).status = status THEN 1 ELSE 0)
         + CountStatus(Tail(ords), status)

\* the reduce of selectOrderStats over the orders that are not cancelled
RECURSIVE Revenue(_, _)
Revenue(sum, ords) ==
  IF ords = <<>> THEN sum
  ELSE IF Head(ords).status # "cancelled"
       THEN Revenue(sum + Head(ords).total, Tail(ords))
       ELSE Revenue(sum, Tail(ords))

\* statistics whose revenue counts the cancelled orders too
RECURSIVE RevenueOfAll(_, _)
RevenueOfAll(sum, ords) ==
  IF ords = <<>> THEN sum
  ELSE RevenueOfAll(sum + Head(ords).total, Tail(ords))

selectOrderStatsAllRevenue(ords) ==
  [total |-> Len(ords),
   pending |-> CountStatus(ords, "pending"),
   processing |-> CountStatus(ords, "processing"),
   shipped |-> CountStatus(ords, "shipped"),
   delivered |-> CountStatus(ords, "delivered"),
   cancelled |-> CountStatus(ords, "cancelled"),
   totalRevenue |-> RevenueOfAll(0, ords)]

\* selectOrderStats
selectOrderStats(ords) ==
  [total |-> Len(ords),
   pending |-> CountStatus(ords, "pending"),
   processing |-> CountStatus(ords, "processing"),
   shipped |-> CountStatus(ords, "shipped"),
   delivered |-> CountStatus(ords, "delivered"),
   cancelled |-> CountStatus(ords, "cancelled"),
   totalRevenue |-> Revenue(0, ords)]

\* (the number of orders is bounded by MaxOrders)
addOrder(payload) ==
  /\ Len(orders) < MaxOrders
  /\ orders' = addOrderReducer(orders, payload)
  /\ out' = <<>>
  /\ UNCHANGED <<cartVars, user, now, authVars>>

updateOrderStatus(orderId, status, after) ==
  LET r == updateOrderStatusReducer(orders, orderId, status)
  IN /\ orders' = r.orders
     /\ out' = r.log \o after
     /\ UNCHANGED <<cartVars, user, now, authVars>>

clearOrders ==
  /\ orders' = <<>>
  /\ out' = <<>>
  /\ UNCHANGED <<cartVars, user, now, authVars>>

\* the clock advances between two operations
Tick ==
  /\ now < MaxClock
  /\ now' = now + 1
  /\ UNCHANGED <<cartVars, orders, user, out, authVars>>

\* payloads of a directly dispatched addOrder: any id, owner, creation
\* time (0: none given) and status (recognised, unrecognised or none given)
OrderIds == 1..MaxOrders
PayloadStatuses == {"", "pending", "delivered", "refunded"}
SampleLine == [id |-> 1, price |-> PriceOf[1], quantity |-> 1]

OrderPayload(id, userId, createdAt, status) ==
  [uid |-> 0, id |-> id, userId |-> userId, items |-> <<SampleLine>>,
   subtotal |-> calculateTotal(<<SampleLine>>), shippingCost |-> shippingCost,
   total |-> calculateTotal(<<SampleLine>>) + shippingCost,
   createdAt |-> createdAt, status |-> status,
   updatedAt |-> 0, shippedAt |-> 0, deliveredAt |-> 0]

DispatchAddOrder ==
  \E id \in OrderIds, userId \in UserIds, createdAt \in 0..now,
     status \in PayloadStatuses :
    addOrder(OrderPayload(id, userId, createdAt, status))

DispatchUpdateOrderStatus ==
  \E orderId \in OrderIds, status \in Statuses :
    updateOrderStatus(orderId, status, <<>>)

(***************************************************************************)
(* authSlice (the outcome of a login request) and the page handlers        *)
(***************************************************************************)

\* the absent 'token' and 'user' entries of localStorage
NoAuthEntry == [present |-> FALSE, token |-> 0, user |-> NoUser]

\* the token a request answers with (0: no token)
TokenOf(u) == u.id

\* what loginUser.fulfilled and registerUser.fulfilled write: user and
\* token into the slice and into localStorage
SessionOf(u) ==
  [auth |-> [token |-> TokenOf(u), status |-> "succeeded"],
   authStorage |-> [present |-> TRUE, token |-> TokenOf(u), user |-> u]]

\* loginUser.fulfilled (the request itself is left to the caller)
loginUserFulfilled(u) ==
  /\ user' = u
  /\ auth' = SessionOf(u).auth
  /\ authStorage' = SessionOf(u).authStorage
  /\ out' = <<"toast.success:login">>
  /\ UNCHANGED <<cartVars, orders, now>>

\* registerUser.fulfilled (the request itself is left to the caller)
registerUserFulfilled(u) ==
  /\ user' = u
  /\ auth' = SessionOf(u).auth
  /\ authStorage' = SessionOf(u).authStorage
  /\ out' = <<"toast.success:registered">>
  /\ UNCHANGED <<cartVars, orders, now>>

\* loginUser.pending and registerUser.pending
requestPending ==
  /\ auth' = [auth EXCEPT !.status = "loading"]
  /\ out' = <<>>
  /\ UNCHANGED <<cartVars, orders, user, now, authStorage>>

\* loginUser.rejected and registerUser.rejected
requestRejected(kind) ==
  /\ auth' = [auth EXCEPT !.status = "failed"]
  /\ out' = IF kind = "login" THEN <<"toast.error:login">>
            ELSE <<"toast.error:register">>
  /\ UNCHANGED <<cartVars, orders, user, now, authStorage>>

\* logoutUser: user, token and both storage entries are cleared; nothing
\* is done about a request that is still awaiting its answer
logoutUser ==
  /\ user' = NoUser
  /\ auth' = [token |-> 0, status |-> "idle"]
  /\ authStorage' = NoAuthEntry
  /\ UNCHANGED requests

\* checkAuth: user and token are restored when both entries are stored
\* (the entries are only ever written by the slice, so they parse)
checkAuth ==
  /\ IF authStorage.present
     THEN /\ auth' = [auth EXCEPT !.token = authStorage.token]
          /\ user' = authStorage.user
     ELSE UNCHANGED <<auth, user>>
  /\ out' = <<>>
  /\ UNCHANGED <<cartVars, orders, now, authStorage, requests>>

\* Navbar.handleLogout: dispatch(logoutUser()); navigate("/")
handleLogout ==
  /\ logoutUser
  /\ out' = <<"toast.info:logout", "navigate:/">>
  /\ UNCHANGED <<cartVars, orders, now>>

\* ProductCard.handleAddToCart: quantity is always 1
handleAddToCart(id, ok) ==
  addToCart(CartPayload(id, TRUE, 1), ok)

\* CartPage.handleRemoveItem
handleRemoveItem(id, ok) ==
  removeFromCart(id, ok, <<"toast.info:page-removed">>)

\* CartPage.handleUpdateQuantity
handleUpdateQuantity(id, quantity, ok) ==
  IF quantity > 0
  THEN updateQuantity(id, quantity, ok)
  ELSE handleRemoveItem(id, ok)

\* CartPage, button "Svuota Carrello", once the dialog is confirmed
handleClearCart(ok) ==
  /\ clearCart(ok, <<"toast.info:page-cleared">>)
  /\ UNCHANGED orders

\* a checkout without the empty-cart validation
CheckoutOutcomeNoEmptyCheck(u, its) ==
  IF u = NoUser THEN "unauthenticated" ELSE "ok"

\* a checkout without the login validation
CheckoutOutcomeNoLoginCheck(u, its) ==
  IF Len(its) = 0 THEN "empty" ELSE "ok"

\* CartPage.handleCheckout, the two validations in their order
CheckoutOutcome(u, its) ==
  IF u = NoUser THEN "unauthenticated"
  ELSE IF Len(its) = 0 THEN "empty"
  ELSE "ok"

\* the order built after the cart was emptied: it holds no lines
checkoutOrderAfterClear(u, its) ==
  [uid |-> 0,
   id |-> now,
   userId |-> u.id,
   items |-> <<>>,
   subtotal |-> Reduce(0, its),
   shippingCost |-> shippingCost,
   total |-> Reduce(0, its) + shippingCost,
   createdAt |-> now,
   status |-> "pending",
   updatedAt |-> 0, shippedAt |-> 0, deliveredAt |-> 0]

\* the order whose subtotal adds the prices of the lines without their
\* quantities
checkoutOrderNoQuantity(u, its) ==
  [uid |-> 0,
   id |-> now,
   userId |-> u.id,
   items |-> its,
   subtotal |-> SumOfPrices(its),
   shippingCost |-> shippingCost,
   total |-> SumOfPrices(its) + shippingCost,
   createdAt |-> now,
   status |-> "pending",
   updatedAt |-> 0, shippedAt |-> 0, deliveredAt |-> 0]

\* CartPage.handleCheckout, the order object: id and createdAt from the
\* clock, the lines copied from the cart, subtotal reduced over the lines
checkoutOrder(u, its) ==
  [uid |-> 0,
   id |-> now,
   userId |-> u.id,
   items |-> its,
   subtotal |-> Reduce(0, its),
   shippingCost |-> shippingCost,
   total |-> Reduce(0, its) + shippingCost,
   createdAt |-> now,
   status |-> "pending",
   updatedAt |-> 0, shippedAt |-> 0, deliveredAt |-> 0]

\* CartPage.handleCheckout: the order is built from the cart and the clock,
\* addOrder and clearCart are dispatched one after the other.  (The number
\* of orders is bounded by MaxOrders.)
handleCheckout(ok) ==
  LET outcome == CheckoutOutcome(user, items)
  IN \/ /\ outcome = "unauthenticated"
        /\ out' = <<"toast.info:login", "navigate:/login">>
        /\ UNCHANGED <<cartVars, orders, user, now, authVars>>
     \/ /\ outcome = "empty"
        /\ out' = <<"toast.warning:empty">>
        /\ UNCHANGED <<cartVars, orders, user, now, authVars>>
     \/ /\ outcome = "ok"
        /\ Len(orders) < MaxOrders
        /\ orders' = addOrderReducer(orders, checkoutOrder(user, items))
        /\ clearCart(ok, <<"toast.success:order", "navigate:/profile">>)

\* a page that renders the status buttons for every logged-in user
adminControlsForEveryone(u) == u # NoUser

\* ProfilePage, "Admin Controls": the block of status buttons is rendered
\* under user.role === 'admin'
adminControlsRendered(u) == u.role = "admin"

\* ProfilePage.handleStatusChange, reached through the buttons of the
\* "Admin Controls" block: one button per status for every listed order,
\* the one of the order's current status disabled
handleStatusChange(orderId, newStatus) ==
  /\ adminControlsRendered(user)
  /\ \E k \in 1..Len(orders) :
       orders[k].id = orderId /\ orders[k].status # newStatus
  /\ updateOrderStatus(orderId, newStatus, <<"toast.success:status">>)

\* a login request and its answer, taken together
Login == \E u \in Users : loginUserFulfilled(u) /\ UNCHANGED requests

AddToCartClick ==
  \E id \in Catalogue, ok \in BOOLEAN : handleAddToCart(id, ok)

UpdateQuantityClick ==
  \E id \in Catalogue, q \in 0..MaxQty, ok \in BOOLEAN :
    handleUpdateQuantity(id, q, ok)

RemoveItemClick ==
  \E id \in Catalogue, ok \in BOOLEAN : handleRemoveItem(id, ok)

ClearCartClick == \E ok \in BOOLEAN : handleClearCart(ok)

CheckoutClick == \E ok \in BOOLEAN : handleCheckout(ok)

StatusChangeClick ==
  \E k \in 1..Len(orders), newStatus \in Statuses :
    handleStatusChange(orders[k].id, newStatus)

Init ==
  /\ storage = NoEntry
  /\ items = <<>>
  /\ total = 0
  /\ orders = <<>>
  /\ user = NoUser
  /\ now = 1
  /\ out = <<>>
  /\ auth = [token |-> 0, status |-> "idle"]
  /\ authStorage = NoAuthEntry
  /\ requests = {}

NextCart ==
  \/ DispatchAddToCart
  \/ DispatchRemoveFromCart
  \/ DispatchUpdateQuantity
  \/ DispatchClearCart
  \/ SessionStart

SpecCart == Init /\ [][NextCart]_vars

NextOrders ==
  \/ DispatchAddOrder
  \/ DispatchUpdateOrderStatus
  \/ clearOrders
  \/ Tick

SpecOrders == Init /\ [][NextOrders]_vars

Next ==
  \/ Login
  \/ handleLogout
  \/ AddToCartClick
  \/ UpdateQuantityClick
  \/ RemoveItemClick
  \/ ClearCartClick
  \/ CheckoutClick
  \/ StatusChangeClick
  \/ Tick

Spec == Init /\ [][Next]_vars

(***************************************************************************)
(* SpecAuth: the requests of the login and registration pages are sent and *)
(* answered in separate steps; the Navbar and the address bar stay usable  *)
(* while a request awaits its answer.                                      *)
(***************************************************************************)

\* the account a visitor registers (registerUser gives it role 'user')
NewAccount == [id |-> 3, role |-> "user"]

\* the requests that can be sent: a login to any account, the
\* registration of the new account
Requests ==
  {[kind |-> "login", user |-> u] : u \in Users \cup {NewAccount}}
    \cup {[kind |-> "register", user |-> NewAccount]}

\* LoginPage.handleSubmit / RegisterPage.handleSubmit: the thunk is
\* dispatched, its pending action reduced, the request sent.  The submit
\* button of either form is disabled while the status is loading.  (The
\* number of requests in flight is bounded by MaxPending.)
SubmitRequest ==
  \E r \in Requests \ requests :
    /\ auth.status # "loading"
    /\ Cardinality(requests) < MaxPending
    /\ requests' = requests \cup {r}
    /\ requestPending

\* the answer to a request arrives: the account data and a token
RequestFulfilled(r) ==
  /\ r \in requests
  /\ requests' = requests \ {r}
  /\ IF r.kind = "login"
     THEN loginUserFulfilled(r.user)
     ELSE registerUserFulfilled(r.user)

\* the answer to a request arrives: a failure (wrong credentials, email
\* already registered, network)
RequestRejected(r) ==
  /\ r \in requests
  /\ requests' = requests \ {r}
  /\ requestRejected(r.kind)

AnswerFulfilled == \E r \in requests : RequestFulfilled(r)

AnswerRejected == \E r \in requests : RequestRejected(r)

\* Navbar: the logout entry is rendered while a user is logged in
LogoutClick == user # NoUser /\ handleLogout

NextAuth ==
  \/ SubmitRequest
  \/ AnswerFulfilled
  \/ AnswerRejected
  \/ LogoutClick
  \/ checkAuth
  \/ SessionStart

SpecAuth == Init /\ [][NextAuth]_vars

(***************************************************************************)
(* Properties                                                              *)
(***************************************************************************)

\* the sum of price x quantity over the lines, taken line by line from the
\* last one
RECURSIVE LineSum(_)
LineSum(its) ==
  IF Len(its) = 0 THEN 0
  ELSE LineSum(SubSeq(its, 1, Len(its) - 1))
         + its[Len(its)].price * its[Len(its)].quantity

\* the transition table of the specification
LegalPairs ==
  {<<"pending", "processing">>, <<"pending", "cancelled">>,
   <<"processing", "shipped">>, <<"processing", "cancelled">>,
   <<"shipped", "delivered">>}

Terminal == {"delivered", "cancelled"}

\* the order of ords that is the object uid
OrderOf(ords, uid) == CHOOSE o \in {ords[i] : i \in 1..Len(ords)} : o.uid = uid
HasOrder(ords, uid) == \E i \in 1..Len(ords) : ords[i].uid = uid

\* C1: updateOrderStatus is a hard gate: a requested status that the
\* transition table does not list for the order's current status leaves
\* the whole order collection as it was.
C1_HardGate ==
  [][\A orderId \in OrderIds, status \in Statuses :
       (/\ updateOrderStatus(orderId, status, <<>>)
        /\ FindOrder(orders, orderId) # 0
        /\ <<orders[FindOrder(orders, orderId)].status, status>> \notin LegalPairs)
       => orders' = orders]_vars

\* C2: delivered and cancelled are terminal: whatever operation other than
\* clearOrders is applied, an order that is delivered or cancelled is still
\* in the collection with the same status afterwards.
C2_TerminalStaysTerminal ==
  [][(~clearOrders) =>
       \A i \in 1..Len(orders) :
         orders[i].status \in Terminal =>
           /\ HasOrder(orders', orders[i].uid)
           /\ OrderOf(orders', orders[i].uid).status = orders[i].status]_vars

\* C2 witness: a transition was requested for a cancelled order and refused.
C2_Witness ==
  /\ Len(orders) = 1
  /\ orders[1].status = "cancelled"
  /\ out = <<"console.warn:transition">>

\* C3: after every cart operation (addToCart, removeFromCart,
\* updateQuantity, clearCart) total is the sum of price x quantity over the
\* lines of the cart.
C3_TotalIsLineSum ==
  [][CartMutation => total' = LineSum(items')]_vars

\* C3 witness: two lines, 25 x 2 and 15 x 1, and the total 65.
C3_Witness ==
  /\ Len(items) = 2
  /\ \E i \in 1..2 : items[i].quantity = 2 /\ items[i].price = 25
  /\ total = 65

\* C4: when a session starts with lines hydrated from storage, total is
\* already the sum of price x quantity over the hydrated lines.
C4_HydratedTotalIsLineSum ==
  [][SessionStart => total' = LineSum(items')]_vars

\* C5: the cart never holds two lines with the same product id.
C5_OneLinePerProduct ==
  \A i, j \in 1..Len(items) : items[i].id = items[j].id => i = j

\* C5 witness: addToCart for a product already in the cart merged the
\* quantities into the one line.
C5_Witness ==
  /\ out # <<>>
  /\ out[1] = "toast.info:merged"
  /\ Len(items) = 1
  /\ items[1].quantity = 2

\* C6: every line of the cart has a quantity of at least 1.
C6_QuantityAtLeastOne ==
  \A i \in 1..Len(items) : items[i].quantity >= 1

\* C7: no two orders of the collection have the same id.
C7_UniqueOrderIds ==
  \A i, j \in 1..Len(orders) : orders[i].id = orders[j].id => i = j

\* C8: a placed order is frozen: whatever operation is applied, every order
\* of the collection is still there afterwards with the same items,
\* subtotal, total, userId and createdAt.
C8_PlacedOrderFrozen ==
  [][\A i \in 1..Len(orders) :
       /\ HasOrder(orders', orders[i].uid)
       /\ LET o == OrderOf(orders', orders[i].uid)
          IN /\ o.items = orders[i].items
             /\ o.subtotal = orders[i].subtotal
             /\ o.total = orders[i].total
             /\ o.userId = orders[i].userId
             /\ o.createdAt = orders[i].createdAt]_vars

\* C8 witness: an order whose status was changed after it was placed, a
\* second order placed later, and a cart that holds other lines again.
C8_Witness ==
  /\ Len(orders) = 2
  /\ \E i \in 1..2 : orders[i].status = "processing" /\ orders[i].updatedAt # 0
  /\ items # <<>>
  /\ \A i \in 1..2 : orders[i].items # items

C10_UnauthenticatedCheckoutFails ==
  [][(CheckoutClick /\ user = NoUser) =>
       /\ orders' = orders
       /\ items' = items
       /\ total' = total
       /\ out' = <<"toast.info:login", "navigate:/login">>]_vars

\* C10 witness: the checkout of a cart with lines was refused for lack of
\* a logged-in user.
C10_Witness ==
  /\ out = <<"toast.info:login", "navigate:/login">>
  /\ user = NoUser
  /\ items # <<>>

\* C11: after a successful checkout by a logged-in user on a cart with
\* lines, the user's orders (selectUserOrders) hold the new order exactly
\* once, one order more than before, with the lines the cart had just
\* before the checkout, and the cart has no lines and total 0.
C11_CheckoutMovesCartIntoOrder ==
  [][(CheckoutClick /\ user # NoUser /\ Len(items) > 0) =>
       LET mine == selectUserOrders(orders', user.id)
           before == selectUserOrders(orders, user.id)
           fresh == {i \in 1..Len(mine) : mine[i].uid = Len(orders) + 1}
       IN /\ Cardinality(fresh) = 1
          /\ Len(mine) = Len(before) + 1
          /\ \A i \in fresh : mine[i].items = items
          /\ items' = <<>>
          /\ total' = 0]_vars

\* C11 witness: a checkout just succeeded; the collection holds an order of
\* another user too, and the user's own orders are the one new order with
\* its line of two pieces.
C11_Witness ==
  /\ out = <<"toast.info:cleared", "toast.success:order", "navigate:/profile">>
  /\ user # NoUser
  /\ items = <<>>
  /\ total = 0
  /\ Len(orders) = 2
  /\ Len(selectUserOrders(orders, user.id)) = 1
  /\ selectUserOrders(orders, user.id)[1].items
       = <<[id |-> 1, price |-> 25, quantity |-> 2]>>

\* the lines of the example: 25 x 2 and 15 x 1
ExampleLines ==
  <<[id |-> 1, price |-> 25, quantity |-> 2],
    [id |-> 2, price |-> 15, quantity |-> 1]>>

C13_StatusIsOneOfFive ==
  \A i \in 1..Len(orders) : orders[i].status \in Statuses

\* C14: the order that addOrder has just stored has status pending,
\* whatever the payload contains.
C14_AddedOrderIsPending ==
  [][DispatchAddOrder =>
       /\ HasOrder(orders', Len(orders) + 1)
       /\ OrderOf(orders', Len(orders) + 1).status = "pending"]_vars

C16_ZeroQuantityIsRemoval ==
  [][\A id \in ProductIds :
       /\ (\E ok \in BOOLEAN : updateQuantity(id, 0, ok)) =>
            /\ items' = removeFromCartReducer(items, id).items
            /\ total' = calculateTotal(removeFromCartReducer(items, id).items)
       /\ (\E ok \in BOOLEAN : removeFromCart(id, ok, <<>>)) =>
            /\ items' = updateQuantityReducer(items, id, 0).items
            /\ total' = calculateTotal(updateQuantityReducer(items, id, 0).items)]_vars

\* C16 witness: updateQuantity with a quantity that is not positive took
\* effect on a cart that still holds a line, whose storage entry is the
\* cart.
C16_Witness ==
  /\ out = <<"toast.info:article-removed">>
  /\ Len(items) = 1
  /\ total = LineSum(items)
  /\ storage.present
  /\ JSONparse(storage.text) = items

\* C17: on every transition of the table, updateOrderStatus sets the
\* order's status to the requested one and updatedAt to the current time,
\* sets shippedAt (to the current time) exactly when the new status is
\* shipped and deliveredAt exactly when it is delivered, and leaves both
\* as they were otherwise.
C17_LegalTransitionEffects ==
  [][\A orderId \in OrderIds, status \in Statuses :
       (/\ FindOrder(orders, orderId) # 0
        /\ <<orders[FindOrder(orders, orderId)].status, status>> \in LegalPairs
        /\ updateOrderStatus(orderId, status, <<>>))
       => LET k == FindOrder(orders, orderId)
          IN /\ Len(orders') = Len(orders)
             /\ orders'[k].status = status
             /\ orders'[k].updatedAt = now
             /\ orders'[k].shippedAt =
                  IF status = "shipped" THEN now ELSE orders[k].shippedAt
             /\ orders'[k].deliveredAt =
                  IF status = "delivered" THEN now ELSE orders[k].deliveredAt
             /\ \A j \in 1..Len(orders) : j # k => orders'[j] = orders[j]]_vars

\* C17 witness: an order went pending, processing, shipped, delivered; it
\* carries the time it was shipped and the later time it was delivered.
C17_Witness ==
  \E i \in 1..Len(orders) :
    /\ orders[i].status = "delivered"
    /\ orders[i].shippedAt # 0
    /\ orders[i].deliveredAt > orders[i].shippedAt
    /\ orders[i].updatedAt = orders[i].deliveredAt

\* C18: updateOrderStatus for an id that no order of the collection has
\* fails as "order not found" and leaves the collection unchanged.
C18_UnknownOrderIdRefused ==
  [][\A orderId \in OrderIds, status \in Statuses :
       (/\ \A i \in 1..Len(orders) : orders[i].id # orderId
        /\ updateOrderStatus(orderId, status, <<>>))
       => /\ orders' = orders
          /\ out' = <<"console.error:notfound">>]_vars

\* C18 witness: the collection holds an order that could have taken a new
\* status, and an update was just refused because its id was not found.
C18_Witness ==
  /\ out = <<"console.error:notfound">>
  /\ Len(orders) = 1
  /\ orders[1].status = "pending"

\* C19: when the status change requested on the profile page is refused
\* (the collection stays as it was), the page shows a failure notification
\* and no success notification.
C19_RefusalShownAsFailure ==
  [][(StatusChangeClick /\ orders' = orders) =>
       /\ \A i \in 1..Len(out') : out'[i] # "toast.success:status"
       /\ \E i \in 1..Len(out') :
            out'[i] \in {"toast.error:transition", "toast.error:notfound"}]_vars

\* a cart operation whose write to storage succeeds
SavedCartMutation ==
  \/ \E id \in ProductIds, hasQ \in BOOLEAN, q \in QtyPayloads :
       (~hasQ => q = 0) /\ addToCart(CartPayload(id, hasQ, q), TRUE)
  \/ \E id \in ProductIds : removeFromCart(id, TRUE, <<>>)
  \/ \E id \in ProductIds, q \in QtyPayloads : updateQuantity(id, q, TRUE)
  \/ clearCart(TRUE, <<>>)

\* C20: after every cart operation whose write to storage succeeds, the
\* 'cart' entry of storage holds exactly the lines of the cart, so that a
\* session hydrated from it starts with the same lines in the same order.
C20_StorageMirrorsCart ==
  [][SavedCartMutation =>
       /\ storage'.present
       /\ storage'.text = JSONstringify(items')
       /\ initialState'.items = items']_vars

\* C20 witness: a second product was just added and saved; the entry
\* hydrates to the two lines of the cart, the later one last.
C20_Witness ==
  /\ out = <<"toast.success:added">>
  /\ Len(items) = 2
  /\ items[1].id = 2
  /\ items[2].id = 1
  /\ storage.present
  /\ initialState.items = items

\* the cart after an operation whose write to storage failed: the lines
\* are the expected ones, the total is their sum, and the output of the
\* operation holds the error notification of the failed save
KeptDespiteFailure(expected) ==
  /\ items' = expected
  /\ total' = LineSum(expected)
  /\ \E i \in 1..(Len(out') - 1) :
       /\ out'[i] = "console.error:save"
       /\ out'[i + 1] = "toast.error:save"

\* C21: a failed write to storage during a cart operation never rolls the
\* operation back: the lines and the total in memory are those of the
\* completed operation, and the failure is reported as an error
\* notification by the operation, which completes normally.
C21_StorageFailureKeepsMutation ==
  [][/\ \A id \in ProductIds, hasQ \in BOOLEAN, q \in QtyPayloads :
          ((~hasQ => q = 0) /\ addToCart(CartPayload(id, hasQ, q), FALSE))
          => KeptDespiteFailure(
               addToCartReducer(items, CartPayload(id, hasQ, q)).items)
     /\ \A id \in ProductIds :
          removeFromCart(id, FALSE, <<>>)
          => KeptDespiteFailure(removeFromCartReducer(items, id).items)
     /\ \A id \in ProductIds, q \in QtyPayloads :
          updateQuantity(id, q, FALSE)
          => KeptDespiteFailure(updateQuantityReducer(items, id, q).items)
     /\ clearCart(FALSE, <<>>) => KeptDespiteFailure(<<>>)]_vars

\* C21 witness: a product was added while storage refused the write; the
\* cart holds the line and its total, the error was notified and storage
\* has no entry.
C21_Witness ==
  /\ out = <<"toast.success:added", "console.error:save", "toast.error:save">>
  /\ Len(items) = 1
  /\ total = items[1].price * items[1].quantity
  /\ total > 0
  /\ ~storage.present

\* the indices of the orders of ords with the status
WithStatus(ords, status) == {i \in 1..Len(ords) : ords[i].status = status}

\* the sum of total over the orders of ords at the indices of idx
RECURSIVE TotalOver(_, _)
TotalOver(ords, idx) ==
  IF idx = {} THEN 0
  ELSE LET i == CHOOSE j \in idx : TRUE
       IN ords[i].total + TotalOver(ords, idx \ {i})

\* the collection of the example: totals 70, 30, 50 with statuses pending,
\* cancelled, delivered
ExampleOrders ==
  <<[total |-> 70, status |-> "pending"],
    [total |-> 30, status |-> "cancelled"],
    [total |-> 50, status |-> "delivered"]>>

\* C22: for every order collection selectOrderStats returns the number of
\* orders in each of the five statuses and, as totalRevenue, the sum of
\* total over exactly the orders that are not cancelled; for the totals
\* 70, 30, 50 with statuses pending, cancelled, delivered, totalRevenue
\* is 120.
C22_OrderStats ==
  /\ \A status \in Statuses :
       selectOrderStats(orders)[status]
         = Cardinality(WithStatus(orders, status))
  /\ selectOrderStats(orders).total = Len(orders)
  /\ selectOrderStats(orders).totalRevenue
       = TotalOver(orders, (1..Len(orders)) \ WithStatus(orders, "cancelled"))
  /\ selectOrderStats(ExampleOrders).totalRevenue = 120
  /\ selectOrderStats(ExampleOrders).cancelled = 1

\* C22 witness: a collection of a cancelled order and a processing one;
\* the revenue is the total of the one that is not cancelled.
C22_Witness ==
  /\ Len(orders) = 2
  /\ selectOrderStats(orders).cancelled = 1
  /\ selectOrderStats(orders).processing = 1
  /\ selectOrderStats(orders).totalRevenue = 30

\* the sequence is ordered most recent first by createdAt
MostRecentFirst(ords) ==
  \A i, j \in 1..Len(ords) : i < j => ords[i].createdAt >= ords[j].createdAt

C25_RemoveAbsentIsSilentNoOp ==
  [][\A id \in ProductIds :
       (/\ FindIndex(items, id) = 0
        /\ \E ok \in BOOLEAN : removeFromCart(id, ok, <<>>))
       => /\ items' = items
          /\ total' = total
          /\ \A i \in 1..Len(out') : out'[i] # "toast.error:notfound"]_vars

\* C26: status changes are initiated by administrators only: in every
\* sequence of actions of the user interface, updateOrderStatus is
\* dispatched (the status-change handler runs) only while the logged-in
\* user has role admin, and no step taken while the user is not an admin
\* changes the status of any order.
C26_OnlyAdminsChangeStatus ==
  [][/\ StatusChangeClick => user.role = "admin"
     /\ user.role # "admin" =>
          \A i \in 1..Len(orders) :
            HasOrder(orders', orders[i].uid) =>
              OrderOf(orders', orders[i].uid).status = orders[i].status]_vars

\* C26 witness: an admin has just changed the status of another user's
\* order.
C26_Witness ==
  /\ out = <<"toast.success:status">>
  /\ user.role = "admin"
  /\ \E i \in 1..Len(orders) :
       /\ orders[i].userId # user.id
       /\ orders[i].status = "processing"
       /\ orders[i].updatedAt # 0

\* how far a status is from pending: every path of status changes from
\* pending is a path of strictly growing distance, and no status is
\* further than 3
Distance(status) ==
  CASE status = "pending" -> 0
    [] status = "processing" -> 1
    [] status = "shipped" -> 2
    [] status = "delivered" -> 3
    [] status = "cancelled" -> 3

\* C27: the status of an order only moves forward: an order that is in
\* one of the five statuses (as every order that entered as pending is)
\* either keeps its status or takes one that is further from pending and
\* that it therefore has not had before; with pending at distance 0 and
\* delivered and cancelled, the only statuses without a further one, at
\* distance 3, that is at most three successful changes.
C27_StatusMovesForward ==
  [][\A i \in 1..Len(orders) :
       (orders[i].status \in Statuses /\ HasOrder(orders', orders[i].uid)) =>
         LET before == orders[i].status
             after == OrderOf(orders', orders[i].uid).status
         IN \/ after = before
            \/ /\ after \in Statuses
               /\ Distance(after) > Distance(before)
               /\ before \notin Terminal]_vars

\* C27 witness: an order was taken from pending to delivered, and a
\* request to move it on from there was refused.
C27_Witness ==
  /\ out = <<"console.warn:transition">>
  /\ \E i \in 1..Len(orders) :
       /\ orders[i].status = "delivered"
       /\ orders[i].shippedAt # 0
       /\ orders[i].deliveredAt # 0

\* C28: an order with status delivered has shippedAt and deliveredAt set,
\* and an order with status shipped has shippedAt set, whatever addOrder
\* and updateOrderStatus operations were applied.
C28_TimestampsMatchStatus ==
  \A i \in 1..Len(orders) :
    /\ orders[i].status = "delivered" =>
         (orders[i].shippedAt # 0 /\ orders[i].deliveredAt # 0)
    /\ orders[i].status = "shipped" => orders[i].shippedAt # 0

\* C29: updateQuantity with a quantity above 0 for a product id that is
\* not in the cart creates no line: the lines and the total of the cart
\* are the same before and after the operation.
C29_UpdateAbsentChangesNothing ==
  [][\A id \in ProductIds, q \in 1..MaxQty :
       (/\ FindIndex(items, id) = 0
        /\ \E ok \in BOOLEAN : updateQuantity(id, q, ok))
       => /\ items' = items
          /\ total' = total]_vars

\* C30: logout is final for the requests already in flight.  A request
\* that awaits its answer while the slice's status is idle was sent before
\* a logout (sending sets the status to loading, every answer to succeeded
\* or failed, only logoutUser back to idle), and none was sent since; when
\* its answer arrives, user and token are still null and the 'token' and
\* 'user' entries of storage still absent.
C30_LogoutIsFinal ==
  [][\A r \in requests :
       (/\ auth.status = "idle"
        /\ user = NoUser
        /\ RequestFulfilled(r) \/ RequestRejected(r))
       => /\ user' = NoUser
          /\ auth'.token = 0
          /\ ~authStorage'.present]_vars

====
